---- MODULE Spec2Model ----
(***************************************************************************)
(* Blood-request lifecycle of the LPbackend service.                        *)
(*                                                                         *)
(* One BloodRequest document (models/BloodRequest.js) lives in the store.  *)
(* HTTP handlers and model-method callers run as concurrent handlers: each *)
(* first loads the document (findById), then calls a model method on its   *)
(* private in-memory copy; the method mutates the copy and writes it back  *)
(* with save().  save() sends only the modified paths: an array push is    *)
(* sent as $push (with $inc of the version key, no version condition), a   *)
(* changed scalar as $set, a changed field of an array element as a        *)
(* positional $set conditioned on the version key read at load time.       *)
(***************************************************************************)
EXTENDS Integers, Sequences, FiniteSets, TLC

\* ---------------------------------------------------------------- bounds
NumHandlers == 2        \* handlers that may be in flight together
NumDonors   == 3        \* donor ids
MaxUnitsIn  == 2        \* largest in-range units value a caller sends
MaxTime     == 1        \* clock values 0..MaxTime
MaxOverlap  == 1        \* calls that may begin while another call is in flight
MaxTokens   == 2        \* recipients of one multicast notification
MaxCands    == 2        \* documents a proximity query may match
MaxDist     == 2        \* distances 0..MaxDist from the query point
MaxOwned    == 2        \* requests one requester owns
MaxOtps     == 2        \* OTP records created for one phone and type
MaxCreated  == 6        \* OTPs send-otp issues for one phone and type in one hour
MaxVerifies == 3        \* verify-token attempts counted on one token
MaxFailedLogins == 6    \* value the admin's loginAttempts counter may reach
MaxCapacity == 2        \* largest capacity of a blood camp

\* ------------------------------------------------------- program constants
MinUnits == 1           \* units: min 1
MaxUnits == 10          \* units: max 10
MaxLongitude   == 180   \* longitude: -180..180
MaxLatitude    == 90    \* latitude: -90..90
MaxDescription == 500   \* description: at most 500 characters
MaxAttempts    == 5     \* OTP attempts: max 5
MaxOtpsPerHour == 5     \* send-otp: OTPs per phone and type per hour
MaxLoginAttempts == 5   \* admin: failed logins before the account is locked
DefaultMethod  == "SMS" \* verification method of a fresh service

Handlers == 1..NumHandlers
Donors   == 1..NumDonors
Times    == 0..MaxTime

\* units values a caller may send: below range, in range, above range
UnitsInputs == (0..MaxUnitsIn) \cup {MaxUnits + 1}

RequestStatuses == {"PENDING", "ACCEPTED", "IN_PROGRESS", "COMPLETED", "CANCELLED", "EXPIRED"}
DonorStatuses   == {"PENDING", "CONFIRMED", "COMPLETED", "CANCELLED"}
\* statuses a caller may pass to updateDonorStatus: the enum and one value outside it
StatusInputs    == DonorStatuses \cup {"INVALID"}

\* coordinates and description lengths a caller may send: in range, out of range
LongitudeInputs   == {77, MaxLongitude + 1}
LatitudeInputs    == {12, -(MaxLatitude + 1)}
DescriptionInputs == {0, MaxDescription + 1}

\* state of the push backend when a send is attempted
Backends == {"unconfigured", "error", "ok"}

VARIABLES
    db,       \* the stored BloodRequest document
    now,      \* the clock (new Date())
    proc,     \* per handler: position, operation, in-memory document
    last,     \* operation, donor argument and outcome of the call that completed last,
              \* kept until the next call loads the document
    overlaps, \* number of calls begun while another call was in flight
    call,     \* the stateless call (helper, query or route) that completed last
    account,  \* the user record of a requester and the statuses of the requests they own
    aproc,    \* per handler: position in DELETE /api/users/me
    alast,    \* outcome of the delete-account call that completed last
    otps,     \* the stored OTP records of one phone and type, in creation order
    oproc,    \* per handler: position in createOTP / verifyOTP
    olast,    \* outcome of the OTP call that completed last
    otpDocs,  \* number of stored OTP documents of the phone and type, all created
              \* within the last hour
    created,  \* number of OTPs created for the phone and type within the last hour
    sproc,    \* per handler: position in POST /api/auth/send-otp
    slast,    \* outcome of the send-otp call that completed last
    token,    \* one stored email-verification / password-reset token
    tproc,    \* per handler: position in POST /verify-token
    tlast,    \* answer of the last verify-token call, and how many were answered 200
    admin,    \* one stored admin account
    lproc,    \* position of the admin login in flight
    llast,    \* outcome of the admin login that completed last, and the run of
              \* failed logins that ends with it
    method,   \* verificationService.verificationMethod, shared by all requests
    mproc,    \* per handler: position in POST /send or /resend of the verification router
    mlast,    \* outcome of the /send or /resend call that completed last
    camp,     \* one BloodCamp document
    clast     \* the camp call that completed last, and the status it saved from

vars == <<db, now, proc, last, overlaps, call, account, aproc, alast, otps, oproc, olast,
          otpDocs, created, sproc, slast, token, tproc, tlast, admin, lproc, llast,
          method, mproc, mlast, camp, clast>>

\* the variables of the stateless calls, of account deletion and of the OTP store
fnVars   == <<call>>
acctVars == <<account, aproc, alast>>
otpVars  == <<otps, oproc, olast>>

\* the variables of send-otp, of the email tokens, of the admin login, of the
\* verification method and of the blood camps
sendVars   == <<otpDocs, created, sproc, slast>>
tokenVars  == <<token, tproc, tlast>>
adminVars  == <<admin, lproc, llast>>
methodVars == <<method, mproc, mlast>>
campVars   == <<camp, clast>>

\* what the blood-request handlers never touch
otherThanReq == <<fnVars, acctVars, otpVars, sendVars, tokenVars, adminVars, methodVars,
                  campVars>>

NoRequest == [exists |-> FALSE, units |-> 0, status |-> "NONE",
              acceptedDonors |-> <<>>, requiredBy |-> 0, v |-> 0]

NoDoc == [status |-> "NONE", acceptedDonors |-> <<>>, v |-> 0]

Idle == [pc |-> "idle", op |-> "none", doc |-> NoDoc]

NoCall == [op |-> "none", donor |-> 0, res |-> "NONE",
           push |-> "none", sent |-> FALSE, nerr |-> FALSE]

\* ------------------------------------------------------------ model helpers

\* virtual isExpired
isExpired(requiredBy, t) == t > requiredBy

\* variant: no expiry hook
preSave_noHook(status, requiredBy, t) == status

\* pre('save') hook: a PENDING request past its deadline is saved as EXPIRED
preSave(status, requiredBy, t) ==
    IF isExpired(requiredBy, t) /\ status = "PENDING" THEN "EXPIRED" ELSE status

\* variant: only the first entry is compared
existingAcceptance_first(list, d) == Len(list) > 0 /\ list[1].donor = d

\* acceptedDonors.find(acceptance => acceptance.donor == donorId)
existingAcceptance(list, d) == \E i \in 1..Len(list) : list[i].donor = d

\* index of the entry find() returns: the first one of the donor
acceptanceIndex(list, d) ==
    CHOOSE i \in 1..Len(list) :
        /\ list[i].donor = d
        /\ \A j \in 1..(i - 1) : list[j].donor # d

\* variant: capacity test off by one
noUnitsNeeded_offByOne(list, units) == Len(list) > units

\* "Check if we still need donors"
noUnitsNeeded(list, units) == Len(list) >= units

\* variant: ACCEPTED only past capacity
statusAfterAccept_strict(list, units, old) ==
    IF Len(list) > units THEN "ACCEPTED"
    ELSE IF Len(list) > 0 THEN "IN_PROGRESS"
    ELSE old

\* status recomputed by acceptDonor after the push
statusAfterAccept(list, units, old) ==
    IF Len(list) >= units THEN "ACCEPTED"
    ELSE IF Len(list) > 0 THEN "IN_PROGRESS"
    ELSE old

\* variant: CONFIRMED entries counted as completed
completedDonors_confirmed(list) ==
    Cardinality({i \in 1..Len(list) : list[i].status \in {"CONFIRMED", "COMPLETED"}})

\* number of entries with status COMPLETED
completedDonors(list) ==
    Cardinality({i \in 1..Len(list) : list[i].status = "COMPLETED"})

\* status recomputed by updateDonorStatus
statusAfterUpdate(list, units, old) ==
    IF completedDonors(list) >= units THEN "COMPLETED"
    ELSE IF Len(list) > 0 THEN "IN_PROGRESS"
    ELSE old

\* variant: an already cancelled request is refused as well
cannotCancel_terminal(status) == status \in {"COMPLETED", "CANCELLED"}

\* cancelRequest's guard
cannotCancel(status) == status = "COMPLETED"

\* express-validator rule body('units').isInt({min: 1, max: 10})
validUnits(u) == u >= MinUnits /\ u <= MaxUnits

\* status filter of findNearbyRequests
listedStatus(status) == status \in {"PENDING", "ACCEPTED", "IN_PROGRESS"}

\* express-validator rules body('longitude').isFloat, body('latitude').isFloat
validLongitude(x) == x >= -MaxLongitude /\ x <= MaxLongitude
validLatitude(y)  == y >= -MaxLatitude /\ y <= MaxLatitude

\* createRequestValidation: the rules of the route (none names description)
routeValid(units, lon, lat) ==
    validUnits(units) /\ validLongitude(lon) /\ validLatitude(lat)

\* validators of the schema, run by save()
schemaValid(units, lon, lat, descLen) ==
    /\ units >= MinUnits /\ units <= MaxUnits
    /\ lon >= -MaxLongitude /\ lon <= MaxLongitude
    /\ lat >= -MaxLatitude /\ lat <= MaxLatitude
    /\ descLen <= MaxDescription

\* HTTP status of POST /api/requests for each outcome
createStatusCode(res) ==
    CASE res = "Created"                -> 201
      [] res = "ValidationFailed"       -> 400
      [] res = "SchemaValidationFailed" -> 500
      [] OTHER                          -> 0

\* sendNotification: one device; the result object, or the exception that escapes
sendNotification(backend) ==
    IF backend = "unconfigured"
    THEN [threw |-> FALSE, success |-> "false", why |-> "reason"]
    ELSE IF backend = "error"
    THEN [threw |-> FALSE, success |-> "false", why |-> "error"]
    ELSE [threw |-> FALSE, success |-> "true", why |-> "none"]

\* variant: no catch around the send
sendMulticastNotification_noCatch(n, backend, delivered) ==
    IF backend = "unconfigured"
    THEN [threw |-> FALSE, success |-> "false", why |-> "reason",
          successCount |-> 0, failureCount |-> n]
    ELSE IF backend = "error"
    THEN [threw |-> TRUE, success |-> "undefined", why |-> "error",
          successCount |-> 0, failureCount |-> 0]
    ELSE [threw |-> FALSE, success |-> "undefined", why |-> "none",
          successCount |-> delivered, failureCount |-> n - delivered]

\* sendMulticastNotification: n tokens, of which the backend delivers `delivered`;
\* when the send goes through, the backend's own response is returned
sendMulticastNotification(n, backend, delivered) ==
    IF backend = "unconfigured"
    THEN [threw |-> FALSE, success |-> "false", why |-> "reason",
          successCount |-> 0, failureCount |-> n]
    ELSE IF backend = "error"
    THEN [threw |-> FALSE, success |-> "false", why |-> "error",
          successCount |-> 0, failureCount |-> n]
    ELSE [threw |-> FALSE, success |-> "undefined", why |-> "none",
          successCount |-> delivered, failureCount |-> n - delivered]

\* what became of a dispatch to n tokens
dispatchOutcome(backend, delivered) ==
    IF backend = "unconfigured" THEN "unconfigured"
    ELSE IF backend = "error" THEN "sendError"
    ELSE IF delivered = 0 THEN "noDelivery"
    ELSE "delivered"

\* notification step of POST /api/requests: query the nearby donors, send to their
\* tokens; notificationsSent = tokens.length once the send has returned
createDispatch(tokens, queryFails, backend, delivered) ==
    IF queryFails
    THEN [push |-> "queryError", sent |-> FALSE, nerr |-> TRUE]
    ELSE IF tokens = 0
    THEN [push |-> "noRecipients", sent |-> FALSE, nerr |-> FALSE]
    ELSE IF sendMulticastNotification(tokens, backend, delivered).threw
    THEN [push |-> dispatchOutcome(backend, delivered), sent |-> FALSE, nerr |-> TRUE]
    ELSE [push |-> dispatchOutcome(backend, delivered), sent |-> tokens > 0,
          nerr |-> FALSE]

\* notification step of POST /api/requests/:id/accept: send to the requester's
\* token if there is one; notificationSent = true once the send has returned
acceptDispatch(hasToken, backend) ==
    IF ~hasToken
    THEN [push |-> "noRecipients", sent |-> FALSE, nerr |-> FALSE]
    ELSE IF sendNotification(backend).threw
    THEN [push |-> dispatchOutcome(backend, 1), sent |-> FALSE, nerr |-> TRUE]
    ELSE [push |-> dispatchOutcome(backend, 1), sent |-> TRUE, nerr |-> FALSE]

\* a model method called directly sends nothing
NoDispatch == [push |-> "none", sent |-> FALSE, nerr |-> FALSE]

FailedDispatches == {"queryError", "unconfigured", "sendError", "noDelivery"}

\* variant: the saved document is restored when the dispatch failed
afterNotification_rollback(before, saved, dispatch) ==
    IF dispatch.push \in FailedDispatches THEN before ELSE saved

\* the notification step runs after save() and only records its error: the saved
\* document stays as it is
afterNotification(before, saved, dispatch) == saved

\* the call completes with its result; the handler is free again
Finish(h, op, d, result) ==
    /\ proc' = [proc EXCEPT ![h] = Idle]
    /\ last' = [op |-> op, donor |-> d, res |-> result,
                push |-> "none", sent |-> FALSE, nerr |-> FALSE]

\* the same for a route that ran its notification step
FinishNotified(h, op, d, result, dispatch) ==
    /\ proc' = [proc EXCEPT ![h] = Idle]
    /\ last' = [op |-> op, donor |-> d, res |-> result, push |-> dispatch.push,
                sent |-> dispatch.sent, nerr |-> dispatch.nerr]

\* a call begins: it overlaps when another handler has a call in flight
Begin(h) ==
    /\ proc[h].pc = "idle"
    /\ IF \E g \in Handlers \ {h} : proc[g].pc = "loaded"
       THEN overlaps < MaxOverlap /\ overlaps' = overlaps + 1
       ELSE UNCHANGED overlaps

\* ------------------------------------------------- stateless calls: helpers

NoFnCall == [fn |-> "none"]

\* what the stateless calls never touch
otherThanFn == <<db, now, proc, last, overlaps, acctVars, otpVars, sendVars, tokenVars,
                 adminVars, methodVars, campVars>>

Urgencies == {"LOW", "MEDIUM", "HIGH", "CRITICAL"}

\* query-string values of longitude and latitude: absent, zero in three spellings,
\* a real coordinate
CoordInputs == {"", "0", "0.0", "-0", "77.59"}

\* parseFloat on those strings, in hundredths
parseFloat(str) ==
    CASE str = "0"     -> [nan |-> FALSE, val |-> 0]
      [] str = "0.0"   -> [nan |-> FALSE, val |-> 0]
      [] str = "-0"    -> [nan |-> FALSE, val |-> 0]
      [] str = "77.59" -> [nan |-> FALSE, val |-> 7759]
      [] OTHER         -> [nan |-> TRUE, val |-> 0]

\* parseFloat(x) === 0
isZero(str) == ~parseFloat(str).nan /\ parseFloat(str).val = 0

\* !longitude || !latitude
missingCoordinates(lon, lat) == lon = "" \/ lat = ""

\* variant: the strings are compared, not the parsed numbers
isSentinel_rawString(lon, lat) == lon = "0" /\ lat = "0"

\* "Validate coordinates are not 0,0": the test of the three nearby routes
isSentinel(lon, lat) == isZero(lon) /\ isZero(lat)

\* rank of an urgency value in string order, the order sort() compares by
urgencyKey(u) ==
    CASE u = "CRITICAL" -> 1
      [] u = "HIGH"     -> 2
      [] u = "LOW"      -> 3
      [] OTHER          -> 4

\* the orderings of a finite set
Orderings(S) ==
    {f \in [1..Cardinality(S) -> S] :
        \A i, j \in 1..Cardinality(S) : i # j => f[i] # f[j]}

\* $near with $maxDistance: the documents within the distance, nearest first;
\* documents at the same distance come in either order
nearResults(cands, maxDistance) ==
    LET within == {c \in cands : c.dist <= maxDistance} IN
    {f \in Orderings(within) :
        \A i, j \in 1..Cardinality(within) : i < j => f[i].dist <= f[j].dist}

\* .sort({ urgency: -1, createdAt: -1 }) replaces the order of $near
sortUrgencyCreatedAt(list) ==
    LET S == {list[i] : i \in 1..Len(list)} IN
    CHOOSE f \in Orderings(S) :
        \A i, j \in 1..Cardinality(S) : i < j =>
            \/ urgencyKey(f[i].urgency) > urgencyKey(f[j].urgency)
            \/ /\ urgencyKey(f[i].urgency) = urgencyKey(f[j].urgency)
               /\ f[i].createdAt > f[j].createdAt

\* BloodRequest.findNearbyRequests: the possible results
findNearbyRequests(cands, maxDistance) ==
    {sortUrgencyCreatedAt(f) : f \in nearResults(cands, maxDistance)}

\* User.findNearbyDonors: the possible results
findNearbyDonors(cands, maxDistance) == nearResults(cands, maxDistance)

\* User.findNearbyRequesters: the possible results
findNearbyRequesters(cands, maxDistance) == nearResults(cands, maxDistance)

\* the documents a query may match: document i was created at time i
Candidates(urgencies) ==
    {{[id |-> i, dist |-> d[i], urgency |-> u[i], createdAt |-> i] : i \in 1..MaxCands} :
        d \in [1..MaxCands -> 0..MaxDist], u \in [1..MaxCands -> urgencies]}

\* the recipients named by donorIds: for each, whether the user has a token
RecipientLists == UNION {[1..n -> BOOLEAN] : n \in 0..MaxTokens}

\* acceptedDonors lists of every mix of statuses, capacity exceeded included
AcceptanceLists ==
    UNION {[1..n -> [donor : {1}, status : DonorStatuses]] : n \in 0..(MaxUnitsIn + 1)}

\* virtual acceptedCount
acceptedCount(list) ==
    Cardinality({i \in 1..Len(list) : list[i].status = "CONFIRMED"
                                        \/ list[i].status = "COMPLETED"})

\* variant: no clamp at zero
remainingUnits_noClamp(list, units) ==
    units - Cardinality({i \in 1..Len(list) : list[i].status = "CONFIRMED"
                                                \/ list[i].status = "COMPLETED"})

\* virtual remainingUnits
remainingUnits(list, units) ==
    LET confirmedUnits ==
            Cardinality({i \in 1..Len(list) : list[i].status = "CONFIRMED"
                                                \/ list[i].status = "COMPLETED"})
    IN IF units - confirmedUnits > 0 THEN units - confirmedUnits ELSE 0

\* --------------------------------------------------- account deletion: helpers

Roles == {"DONOR", "REQUESTER"}

NoAccount == [exists |-> FALSE, role |-> "NONE",
              requests |-> [i \in 1..MaxOwned |-> "NONE"]]

NoDelete == [res |-> "NONE"]

\* what account deletion never touches
otherThanAcct == <<db, now, proc, last, overlaps, fnVars, otpVars, sendVars, tokenVars,
                   adminVars, methodVars, campVars>>

\* variant: a request in progress does not count
activeStatus_noInProgress(status) == status \in {"PENDING", "ACCEPTED"}

\* status: { $in: ['PENDING', 'ACCEPTED', 'IN_PROGRESS'] }
activeStatus(status) == status \in {"PENDING", "ACCEPTED", "IN_PROGRESS"}

\* BloodRequest.find({ requester, status: { $in: ... } })
activeRequests(acc) == {i \in 1..MaxOwned : activeStatus(acc.requests[i])}

\* -------------------------------------------------------- OTP store: helpers

OtpCodes == {"111111", "222222"}

OIdle == [pc |-> "idle", otp |-> "none", idx |-> 0, attempts |-> 0]

NoOtpCall == [op |-> "none", res |-> "NONE", idx |-> 0, otp |-> "none"]

\* what the OTP calls never touch
otherThanOtp == <<db, now, proc, last, fnVars, acctVars, sendVars, tokenVars, adminVars,
                  methodVars, campVars>>

\* filter of createOTP's updateMany: isUsed false, expiresAt > now
unusedUnexpired(r) == ~r.isUsed /\ ~r.expired

\* variant: the filter does not look at attempts
verifiable_noAttemptLimit(r) == ~r.isUsed /\ ~r.expired

\* filter of verifyOTP's findOne: isUsed false, expiresAt > now, attempts < 5
verifiable(r) == ~r.isUsed /\ ~r.expired /\ r.attempts < MaxAttempts

\* .sort({ createdAt: -1 }): the newest record that passes the filter, 0 if none
newestVerifiable(list) ==
    LET S == {i \in 1..Len(list) : verifiable(list[i])} IN
    IF S = {} THEN 0 ELSE CHOOSE i \in S : \A j \in S : j <= i

\* an OTP call begins: it overlaps when another handler has an OTP call in flight
OBegin(h) ==
    /\ oproc[h].pc = "idle"
    /\ IF \E g \in Handlers \ {h} : oproc[g].pc # "idle"
       THEN overlaps < MaxOverlap /\ overlaps' = overlaps + 1
       ELSE UNCHANGED overlaps

\* ----------------------------------------------------- send-otp: helpers
\* outcomes of the HTTP call to Twilio Verify
TwilioOutcomes == {"ok", "error"}

NoSend == [res |-> "NONE", twilio |-> "none", stored |-> FALSE]

otherThanSend == <<db, now, proc, last, overlaps, fnVars, acctVars, otpVars, tokenVars,
                   adminVars, methodVars, campVars>>

\* the rate-limit test of send-otp on the count of the last hour's documents
rateLimited(recentOTPs) == recentOTPs >= MaxOtpsPerHour

\* whatsappService.sendSMSFallback: a Twilio error is caught, the code is written
\* to the console and success is reported
sendSMSFallback(twilio) ==
    IF twilio = "ok"
    THEN [success |-> TRUE, method |-> "verify_sms"]
    ELSE [success |-> TRUE, method |-> "console"]

\* whatsappService.sendOTP: returns what sendSMSFallback returns; its own catch
\* is reached only if sendSMSFallback throws
sendOTP(twilio) == sendSMSFallback(twilio)

\* ------------------------------------------------- verify-token: helpers
NewToken == [isUsed |-> FALSE, expired |-> FALSE, attempts |-> 0]

TIdle == [pc |-> "idle", attempts |-> 0]

NoTokenCall == [res |-> "NONE", ok |-> 0]

otherThanToken == <<db, now, proc, last, overlaps, fnVars, acctVars, otpVars, sendVars,
                    adminVars, methodVars, campVars>>

\* filter of EmailVerification.verifyToken's findOne: isUsed false, expiresAt > now
tokenFound(t) == ~t.isUsed /\ ~t.expired

\* ---------------------------------------------------- admin login: helpers
LockStates == {"null", "future", "past"}

NewAdmin == [loginAttempts |-> 0, lockedUntil |-> "null"]

LIdle == [pc |-> "idle", ok |-> FALSE, attempts |-> 0]

NoLogin == [res |-> "NONE", ok |-> FALSE, failures |-> 0]

otherThanAdmin == <<db, now, proc, last, overlaps, fnVars, acctVars, otpVars, sendVars,
                    tokenVars, methodVars, campVars>>

\* variant: the lock is set only after the limit is exceeded
shouldLock_after(loginAttempts) == loginAttempts > MaxLoginAttempts

\* incrementLoginAttempts: lock the account once the counter reaches 5
shouldLock(loginAttempts) == loginAttempts >= MaxLoginAttempts

\* Admin.isLocked: no lock time, or a lock time that has passed, is not locked
isLocked(a) == IF a.lockedUntil = "null" THEN FALSE ELSE a.lockedUntil = "future"

\* --------------------------------------------- verification method: helpers
Methods == {"SMS", "EMAIL"}

MIdle == [pc |-> "idle", orig |-> "none", want |-> "none", ok |-> FALSE]

NoMethodCall == [res |-> "NONE", via |-> "none"]

otherThanMethod == <<db, now, proc, last, overlaps, fnVars, acctVars, otpVars, sendVars,
                     tokenVars, adminVars, campVars>>

\* verificationService.setVerificationMethod: only SMS and EMAIL are accepted
setVerificationMethod(current, m) == IF m \in Methods THEN m ELSE current

\* ------------------------------------------------------ blood camp: helpers
CampStatuses == {"UPCOMING", "ACTIVE", "COMPLETED", "CANCELLED"}

\* the status a request body carries, or none
StatusBodies == CampStatuses \cup {"absent"}

Capacities == 1..MaxCapacity

NoCamp == [exists |-> FALSE, status |-> "NONE", past |-> FALSE, registeredCount |-> 0,
           capacity |-> 0]

NoCampCall == [op |-> "none", res |-> "NONE", before |-> "NONE"]

otherThanCamp == <<db, now, proc, last, overlaps, fnVars, acctVars, otpVars, sendVars,
                   tokenVars, adminVars, methodVars>>

\* bloodCampSchema.pre('save'): two tests in sequence on the date and the status
campPreSave(status, past) ==
    LET first == IF past /\ status = "UPCOMING" THEN "ACTIVE" ELSE status
    IN  IF past /\ first = "ACTIVE" THEN "COMPLETED" ELSE first

\* -------------------------------------------------------------------- Init
Init ==
    /\ db = NoRequest
    /\ now = 0
    /\ proc = [h \in Handlers |-> Idle]
    /\ last = NoCall
    /\ overlaps = 0
    /\ call = NoFnCall
    /\ account = NoAccount
    /\ aproc = [h \in Handlers |-> "idle"]
    /\ alast = NoDelete
    /\ otps = <<>>
    /\ oproc = [h \in Handlers |-> OIdle]
    /\ olast = NoOtpCall
    /\ otpDocs = 0
    /\ created = 0
    /\ sproc = [h \in Handlers |-> "idle"]
    /\ slast = NoSend
    /\ token = NewToken
    /\ tproc = [h \in Handlers |-> TIdle]
    /\ tlast = NoTokenCall
    /\ admin = NewAdmin
    /\ lproc = LIdle
    /\ llast = NoLogin
    /\ method = DefaultMethod
    /\ mproc = [h \in Handlers |-> MIdle]
    /\ mlast = NoMethodCall
    /\ camp = NoCamp
    /\ clast = NoCampCall

\* ----------------------------------------------------------------- actions

\* time passes
Tick ==
    /\ now < MaxTime
    /\ now' = now + 1
    /\ UNCHANGED <<db, proc, last, overlaps, otherThanReq>>

\* POST /api/requests: validate, build the document, save it, notify the nearby
\* donors, respond
CreateRequest(h) ==
    /\ Begin(h)
    /\ ~db.exists
    /\ \E units \in UnitsInputs, requiredBy \in Times,
          lon \in LongitudeInputs, lat \in LatitudeInputs,
          descLen \in DescriptionInputs :
          IF ~routeValid(units, lon, lat)
          THEN Finish(h, "create", 0, "ValidationFailed") /\ UNCHANGED db
          ELSE IF ~schemaValid(units, lon, lat, descLen)
          THEN \* save() throws; the route's outer catch answers
               Finish(h, "create", 0, "SchemaValidationFailed") /\ UNCHANGED db
          ELSE \E tokens \in 0..MaxTokens, queryFails \in BOOLEAN,
                  backend \in Backends :
               \E delivered \in 0..tokens :
               LET saved == [exists |-> TRUE, units |-> units,
                             status |-> preSave("PENDING", requiredBy, now),
                             acceptedDonors |-> <<>>, requiredBy |-> requiredBy,
                             v |-> 0]
                   dispatch == createDispatch(tokens, queryFails, backend, delivered)
               IN
               /\ db' = afterNotification(db, saved, dispatch)
               /\ FinishNotified(h, "create", 0, "Created", dispatch)
    /\ UNCHANGED <<now, otherThanReq>>

\* BloodRequest.findById: the handler gets a private copy of the stored document
Load(h) ==
    /\ Begin(h)
    /\ \E op \in {"accept", "acceptDonor", "updateDonorStatus", "cancelRequest"} :
          IF ~db.exists
          THEN Finish(h, op, 0, "NotFound")
          ELSE /\ proc' = [proc EXCEPT ![h] = [pc |-> "loaded", op |-> op,
                                               doc |-> [status |-> db.status,
                                                        acceptedDonors |-> db.acceptedDonors,
                                                        v |-> db.v]]]
               /\ last' = NoCall
    /\ UNCHANGED <<db, now, otherThanReq>>

\* POST /api/requests/:id/accept after the load, and the model method acceptDonor;
\* d is the authenticated donor (route) or the donorId argument (method)
AcceptDonor(h) ==
    /\ proc[h].pc = "loaded"
    /\ proc[h].op \in {"accept", "acceptDonor"}
    /\ \E d \in Donors :
       LET doc == proc[h].doc
           op  == proc[h].op
       IN
       IF op = "accept" /\ existingAcceptance(doc.acceptedDonors, d)
       THEN Finish(h, op, d, "AlreadyAccepted") /\ UNCHANGED db
       ELSE IF existingAcceptance(doc.acceptedDonors, d)
       THEN Finish(h, op, d, "DuplicateAcceptance") /\ UNCHANGED db
       ELSE IF noUnitsNeeded(doc.acceptedDonors, db.units)
       THEN Finish(h, op, d, "CapacityExceeded") /\ UNCHANGED db
       ELSE LET entry  == [donor |-> d, status |-> "PENDING"]
                list   == Append(doc.acceptedDonors, entry)
                st     == preSave(statusAfterAccept(list, db.units, doc.status),
                                  db.requiredBy, now)
            IN
            \* save(): $push the new entry, $inc the version, $set status if modified;
            \* the route then notifies the requester
            \E hasToken \in BOOLEAN, backend \in Backends :
            LET saved == [db EXCEPT !.acceptedDonors = Append(db.acceptedDonors, entry),
                                    !.status = IF st # doc.status THEN st ELSE db.status,
                                    !.v = db.v + 1]
                dispatch == IF op = "accept" THEN acceptDispatch(hasToken, backend)
                            ELSE NoDispatch
            IN
            /\ db' = afterNotification(db, saved, dispatch)
            /\ FinishNotified(h, op, d, "Accepted", dispatch)
    /\ UNCHANGED <<now, overlaps, otherThanReq>>

\* model method updateDonorStatus(donorId, status)
UpdateDonorStatus(h) ==
    /\ proc[h].pc = "loaded"
    /\ proc[h].op = "updateDonorStatus"
    /\ \E d \in Donors, s \in StatusInputs :
       LET doc == proc[h].doc
           op  == proc[h].op
       IN
       IF ~existingAcceptance(doc.acceptedDonors, d)
       THEN Finish(h, op, d, "DonorNotFound") /\ UNCHANGED db
       ELSE LET i       == acceptanceIndex(doc.acceptedDonors, d)
                list    == [doc.acceptedDonors EXCEPT ![i].status = s]
                st      == preSave(statusAfterUpdate(list, db.units, doc.status),
                                   db.requiredBy, now)
                entryModified == doc.acceptedDonors[i].status # s
            IN
            IF s \notin DonorStatuses
            THEN \* schema validation of the modified path fails before anything is sent
                 Finish(h, op, d, "ValidationError") /\ UNCHANGED db
            ELSE IF entryModified /\ db.v # doc.v
            THEN \* positional $set is conditioned on the version read at load
                 Finish(h, op, d, "VersionError") /\ UNCHANGED db
            ELSE /\ db' = [db EXCEPT !.acceptedDonors =
                                        IF entryModified
                                        THEN [db.acceptedDonors EXCEPT ![i].status = s]
                                        ELSE db.acceptedDonors,
                                     !.status = IF st # doc.status THEN st ELSE db.status]
                 /\ Finish(h, op, d, "Updated")
    /\ UNCHANGED <<now, overlaps, otherThanReq>>

\* model method cancelRequest()
CancelRequest(h) ==
    /\ proc[h].pc = "loaded"
    /\ proc[h].op = "cancelRequest"
    /\ LET doc == proc[h].doc
           op  == proc[h].op
       IN
       IF cannotCancel(doc.status)
       THEN Finish(h, op, 0, "InvalidTransition") /\ UNCHANGED db
       ELSE LET st == preSave("CANCELLED", db.requiredBy, now) IN
            /\ db' = [db EXCEPT !.status = IF st # doc.status THEN st ELSE db.status]
            /\ Finish(h, op, 0, "Cancelled")
    /\ UNCHANGED <<now, overlaps, otherThanReq>>

\* GET /api/requests -> findNearbyRequests: one query, no save
FindNearbyRequests(h) ==
    /\ Begin(h)
    /\ IF db.exists /\ listedStatus(db.status)
       THEN Finish(h, "list", 0, db.status)
       ELSE Finish(h, "list", 0, "Empty")
    /\ UNCHANGED <<db, now, otherThanReq>>

HandlerStep(h) ==
    \/ CreateRequest(h)
    \/ Load(h)
    \/ AcceptDonor(h)
    \/ UpdateDonorStatus(h)
    \/ CancelRequest(h)
    \/ FindNearbyRequests(h)

Next == Tick \/ \E h \in Handlers : HandlerStep(h)

\* concurrent handlers
Spec == Init /\ [][Next]_vars

\* one call at a time: a single handler runs each call to completion
SeqNext == Tick \/ HandlerStep(1)

SeqSpec == Init /\ [][SeqNext]_vars

\* ------------------------------------------------- stateless calls: actions

\* sendNotification called with a token
CallSendNotification ==
    /\ call = NoFnCall
    /\ \E backend \in Backends :
          call' = [fn |-> "sendNotification", backend |-> backend,
                   out |-> sendNotification(backend)]
    /\ UNCHANGED otherThanFn

\* sendMulticastNotification called with n tokens
CallSendMulticastNotification ==
    /\ call = NoFnCall
    /\ \E n \in 1..MaxTokens, backend \in Backends :
       \E delivered \in 0..n :
          call' = [fn |-> "sendMulticastNotification", n |-> n, backend |-> backend,
                   out |-> sendMulticastNotification(n, backend, delivered)]
    /\ UNCHANGED otherThanFn

\* POST /push: notify the donors named by donorIds.  The query filters on
\* isAvailable, a path the User schema does not have: with strictQuery the
\* condition is dropped, without it no document matches.
PushRoute ==
    /\ call = NoFnCall
    /\ \E recipients \in RecipientLists, hasContent \in BOOLEAN,
          strictQuery \in BOOLEAN, backend \in Backends :
       LET donors == IF strictQuery
                     THEN {i \in 1..Len(recipients) : recipients[i]}
                     ELSE {}
           tokens == Cardinality(donors)
           reply(code, error, r) ==
               [fn |-> "push", recipients |-> recipients, backend |-> backend,
                code |-> code, error |-> error, successCount |-> r.successCount,
                failureCount |-> r.failureCount, totalTokens |-> tokens]
           none == [successCount |-> 0, failureCount |-> 0]
       IN
       IF Len(recipients) = 0
       THEN call' = reply(400, "DonorIdsRequired", none)
       ELSE IF ~hasContent
       THEN call' = reply(400, "ContentRequired", none)
       ELSE IF tokens = 0
       THEN call' = reply(400, "NoValidTokens", none)
       ELSE \E delivered \in 0..tokens :
            LET response == sendMulticastNotification(tokens, backend, delivered) IN
            IF response.threw
            THEN call' = reply(500, "SendFailed", none)
            ELSE call' = reply(200, "none", response)
    /\ UNCHANGED otherThanFn

\* the three nearby routes: coordinates required, (0,0) refused, then the finder
Nearby(route, urgencies) ==
    /\ call = NoFnCall
    /\ \E lon \in CoordInputs, lat \in CoordInputs :
       LET reply(code, error, list) ==
               [fn |-> "nearby", route |-> route, lon |-> lon, lat |-> lat,
                code |-> code, error |-> error, list |-> list]
       IN
       IF missingCoordinates(lon, lat)
       THEN call' = reply(400, "CoordinatesRequired", <<>>)
       ELSE IF isSentinel(lon, lat)
       THEN call' = reply(400, "EnableLocation", <<>>)
       ELSE \E cands \in Candidates(urgencies), maxDistance \in 1..MaxDist :
            \E list \in (IF route = "requests"
                         THEN findNearbyRequests(cands, maxDistance)
                         ELSE IF route = "nearby-donors"
                         THEN findNearbyDonors(cands, maxDistance)
                         ELSE findNearbyRequesters(cands, maxDistance)) :
               call' = reply(200, "none", list)
    /\ UNCHANGED otherThanFn

\* GET /api/requests
NearbyRequests == Nearby("requests", Urgencies)

\* GET /api/users/nearby-donors
NearbyDonors == Nearby("nearby-donors", {"NONE"})

\* GET /api/users/nearby-requesters
NearbyRequesters == Nearby("nearby-requesters", {"NONE"})

\* the virtuals acceptedCount and remainingUnits read on a request document
Virtuals ==
    /\ call = NoFnCall
    /\ \E units \in MinUnits..MaxUnitsIn, list \in AcceptanceLists :
          call' = [fn |-> "virtuals", units |-> units, acceptedDonors |-> list,
                   acceptedCount |-> acceptedCount(list),
                   remainingUnits |-> remainingUnits(list, units)]
    /\ UNCHANGED otherThanFn

\* the next call
FnReset ==
    /\ call # NoFnCall
    /\ call' = NoFnCall
    /\ UNCHANGED otherThanFn

FnNext ==
    \/ CallSendNotification
    \/ CallSendMulticastNotification
    \/ PushRoute
    \/ NearbyRequests
    \/ NearbyDonors
    \/ NearbyRequesters
    \/ Virtuals
    \/ FnReset

\* helpers, queries and routes that keep no state between calls
FnSpec == Init /\ [][FnNext]_vars

\* ------------------------------------------------- account deletion: actions

\* registration: the user record is created with its role
RegisterUser ==
    /\ ~account.exists
    /\ \E role \in Roles :
          account' = [exists |-> TRUE, role |-> role,
                      requests |-> [i \in 1..MaxOwned |-> "NONE"]]
    /\ UNCHANGED <<aproc, alast, otherThanAcct>>

\* the requester creates a request
OwnRequest ==
    /\ account.exists
    /\ account.role = "REQUESTER"
    /\ \E i \in 1..MaxOwned :
          /\ account.requests[i] = "NONE"
          /\ account' = [account EXCEPT !.requests[i] = "PENDING"]
    /\ UNCHANGED <<aproc, alast, otherThanAcct>>

\* a request of the user changes its status
OwnedRequestMoves ==
    /\ \E i \in 1..MaxOwned, st \in RequestStatuses :
          /\ account.requests[i] \notin {"NONE", st}
          /\ account' = [account EXCEPT !.requests[i] = st]
    /\ UNCHANGED <<aproc, alast, otherThanAcct>>

\* DELETE /api/users/me, first await: a requester's active requests are looked up
DeleteCheck(h) ==
    /\ aproc[h] = "idle"
    /\ account.exists
    /\ IF account.role = "REQUESTER" /\ activeRequests(account) # {}
       THEN alast' = [res |-> "ActiveRequests"] /\ UNCHANGED aproc
       ELSE aproc' = [aproc EXCEPT ![h] = "checked"] /\ alast' = NoDelete
    /\ UNCHANGED <<account, otherThanAcct>>

\* DELETE /api/users/me, second await: User.findByIdAndDelete
DeleteUser(h) ==
    /\ aproc[h] = "checked"
    /\ account' = [account EXCEPT !.exists = FALSE]
    /\ aproc' = [aproc EXCEPT ![h] = "idle"]
    /\ alast' = [res |-> "Deleted"]
    /\ UNCHANGED otherThanAcct

AcctNext ==
    \/ RegisterUser
    \/ OwnRequest
    \/ OwnedRequestMoves
    \/ \E h \in Handlers : DeleteCheck(h) \/ DeleteUser(h)

\* a user record, the requests the user owns, and delete-account calls
AcctSpec == Init /\ [][AcctNext]_vars

\* ---------------------------------------------------------- OTP store: actions

\* the clock passes the expiresAt of a record
ExpireOTP ==
    /\ \E i \in 1..Len(otps) :
          /\ ~otps[i].expired
          /\ otps' = [otps EXCEPT ![i].expired = TRUE]
    /\ UNCHANGED <<oproc, olast, overlaps, otherThanOtp>>

\* createOTP, first await: generateOTP, then updateMany marks the unused,
\* unexpired records of the phone and type as used
CreateOTPInvalidate(h) ==
    /\ OBegin(h)
    /\ Len(otps) + Cardinality({g \in Handlers : oproc[g].pc = "invalidated"}) < MaxOtps
    /\ otps' = [i \in 1..Len(otps) |->
                   IF unusedUnexpired(otps[i])
                   THEN [otps[i] EXCEPT !.isUsed = TRUE]
                   ELSE otps[i]]
    /\ \E code \in OtpCodes :
          oproc' = [oproc EXCEPT ![h] = [OIdle EXCEPT !.pc = "invalidated", !.otp = code]]
    /\ olast' = NoOtpCall
    /\ UNCHANGED otherThanOtp

\* createOTP, second await: create the new record
CreateOTPInsert(h) ==
    /\ oproc[h].pc = "invalidated"
    /\ otps' = Append(otps, [otp |-> oproc[h].otp, isUsed |-> FALSE, attempts |-> 0,
                             expired |-> FALSE, failed |-> 0, accepted |-> 0])
    /\ oproc' = [oproc EXCEPT ![h] = OIdle]
    /\ olast' = [op |-> "createOTP", res |-> "Created", idx |-> Len(otps) + 1,
                 otp |-> oproc[h].otp]
    /\ UNCHANGED <<overlaps, otherThanOtp>>

\* verifyOTP, first await: findOne, newest record first
VerifyOTPFind(h) ==
    /\ OBegin(h)
    /\ \E code \in OtpCodes :
          IF newestVerifiable(otps) = 0
          THEN /\ olast' = [op |-> "verifyOTP", res |-> "NoValidOTP", idx |-> 0,
                             otp |-> code]
               /\ UNCHANGED oproc
          ELSE /\ oproc' = [oproc EXCEPT ![h] =
                               [pc |-> "found", otp |-> code,
                                idx |-> newestVerifiable(otps),
                                attempts |-> otps[newestVerifiable(otps)].attempts]]
               /\ olast' = NoOtpCall
    /\ UNCHANGED <<otps, otherThanOtp>>

\* verifyOTP, second await: incrementAttempts on a wrong code, markAsUsed on the
\* right one; save() validates (attempts: max 5) and sets the one modified path
\* from the in-memory document.  Each record counts the answers given for it:
\* failed (wrong code) and accepted (valid).
VerifyOTPCheck(h) ==
    /\ oproc[h].pc = "found"
    /\ LET i == oproc[h].idx
           answer(res) == [op |-> "verifyOTP", res |-> res, idx |-> i,
                           otp |-> oproc[h].otp]
       IN
       IF otps[i].otp # oproc[h].otp
       THEN IF oproc[h].attempts + 1 > MaxAttempts
            THEN /\ otps' = [otps EXCEPT ![i].failed = @ + 1]
                 /\ olast' = answer("ValidationError")
            ELSE /\ otps' = [otps EXCEPT ![i].attempts = oproc[h].attempts + 1,
                                         ![i].failed = @ + 1]
                 /\ olast' = answer("InvalidOTP")
       ELSE /\ otps' = [otps EXCEPT ![i].isUsed = TRUE, ![i].accepted = @ + 1]
            /\ olast' = answer("Valid")
    /\ oproc' = [oproc EXCEPT ![h] = OIdle]
    /\ UNCHANGED <<overlaps, otherThanOtp>>

OtpNext ==
    \/ ExpireOTP
    \/ \E h \in Handlers :
          \/ CreateOTPInvalidate(h)
          \/ CreateOTPInsert(h)
          \/ VerifyOTPFind(h)
          \/ VerifyOTPCheck(h)

\* the OTP records of one phone and type under concurrent createOTP and verifyOTP
OtpSpec == Init /\ [][OtpNext]_vars

OtpSeqNext ==
    \/ ExpireOTP
    \/ CreateOTPInvalidate(1)
    \/ CreateOTPInsert(1)
    \/ VerifyOTPFind(1)
    \/ VerifyOTPCheck(1)

\* the same with one OTP call at a time
OtpSeqSpec == Init /\ [][OtpSeqNext]_vars

\* ---------------------------------------------------- send-otp: actions
\* POST /send-otp up to the rate limit: validation and the user lookup answer 400
\* or 404; countDocuments of the last hour's OTPs of the phone and type; 5 or
\* more answer 429
SendOtpCount(h) ==
    /\ sproc[h] = "idle"
    /\ created + Cardinality({g \in Handlers : sproc[g] = "counted"}) < MaxCreated
    /\ \E accepted \in BOOLEAN :
          IF ~accepted
          THEN /\ slast' = [res |-> "400", twilio |-> "none", stored |-> FALSE]
               /\ UNCHANGED sproc
          ELSE IF rateLimited(otpDocs)
          THEN /\ slast' = [res |-> "429", twilio |-> "none", stored |-> FALSE]
               /\ UNCHANGED sproc
          ELSE /\ sproc' = [sproc EXCEPT ![h] = "counted"]
               /\ UNCHANGED slast
    /\ UNCHANGED <<otpDocs, created, otherThanSend>>

\* POST /send-otp, OTP.createOTP: one more OTP document of the phone and type
SendOtpCreate(h) ==
    /\ sproc[h] = "counted"
    /\ otpDocs' = otpDocs + 1
    /\ created' = created + 1
    /\ sproc' = [sproc EXCEPT ![h] = "created"]
    /\ UNCHANGED <<slast, otherThanSend>>

\* POST /send-otp, delivery: whatsappService.sendOTP; a result without success
\* deletes the record and answers 500, any other answers 200
SendOtpDeliver(h) ==
    /\ sproc[h] = "created"
    /\ \E twilio \in TwilioOutcomes :
          LET sendResult == sendOTP(twilio) IN
          IF ~sendResult.success
          THEN /\ otpDocs' = IF otpDocs > 0 THEN otpDocs - 1 ELSE otpDocs
               /\ slast' = [res |-> "500", twilio |-> twilio, stored |-> FALSE]
          ELSE /\ UNCHANGED otpDocs
               /\ slast' = [res |-> "200", twilio |-> twilio, stored |-> TRUE]
    /\ sproc' = [sproc EXCEPT ![h] = "idle"]
    /\ UNCHANGED <<created, otherThanSend>>

\* the TTL index on expiresAt removes an OTP document once it has expired,
\* ten minutes after its creation
TtlDelete ==
    /\ otpDocs > 0
    /\ otpDocs' = otpDocs - 1
    /\ UNCHANGED <<created, sproc, slast, otherThanSend>>

SendNext ==
    \/ TtlDelete
    \/ \E h \in Handlers :
          \/ SendOtpCount(h)
          \/ SendOtpCreate(h)
          \/ SendOtpDeliver(h)

\* send-otp requests for one phone and type within one hour
SendSpec == Init /\ [][SendNext]_vars

\* ------------------------------------------------- verify-token: actions
\* POST /verify-token, EmailVerification.verifyToken: findOne of the unused,
\* unexpired token; none answers 400
VerifyTokenFind(h) ==
    /\ tproc[h].pc = "idle"
    /\ token.attempts + Cardinality({g \in Handlers : tproc[g].pc = "found"}) < MaxVerifies
    /\ IF ~tokenFound(token)
       THEN /\ tlast' = [tlast EXCEPT !.res = "400"]
            /\ UNCHANGED tproc
       ELSE /\ tproc' = [tproc EXCEPT ![h] = [pc |-> "found", attempts |-> token.attempts]]
            /\ UNCHANGED tlast
    /\ UNCHANGED <<token, otherThanToken>>

\* EmailVerification.verifyToken: attempts += 1 on the document read, save
VerifyTokenSave(h) ==
    /\ tproc[h].pc = "found"
    /\ token' = [token EXCEPT !.attempts = tproc[h].attempts + 1]
    /\ tproc' = [tproc EXCEPT ![h].pc = "valid"]
    /\ UNCHANGED <<tlast, otherThanToken>>

\* POST /verify-token, User.findById: no user answers 404 and leaves the token
VerifyTokenUser(h) ==
    /\ tproc[h].pc = "valid"
    /\ \E userExists \in BOOLEAN :
          IF ~userExists
          THEN /\ tlast' = [tlast EXCEPT !.res = "404"]
               /\ tproc' = [tproc EXCEPT ![h] = TIdle]
          ELSE /\ tproc' = [tproc EXCEPT ![h].pc = "user"]
               /\ UNCHANGED tlast
    /\ UNCHANGED <<token, otherThanToken>>

\* POST /verify-token, EmailVerification.markAsUsed: findOneAndUpdate of the
\* unused token; its result is not looked at, the request answers 200
VerifyTokenMark(h) ==
    /\ tproc[h].pc = "user"
    /\ token' = [token EXCEPT !.isUsed = TRUE]
    /\ tlast' = [res |-> "200", ok |-> tlast.ok + 1]
    /\ tproc' = [tproc EXCEPT ![h] = TIdle]
    /\ UNCHANGED otherThanToken

\* the token's expiresAt passes
ExpireToken ==
    /\ ~token.expired
    /\ token' = [token EXCEPT !.expired = TRUE]
    /\ UNCHANGED <<tproc, tlast, otherThanToken>>

TokenNext ==
    \/ ExpireToken
    \/ \E h \in Handlers :
          \/ VerifyTokenFind(h)
          \/ VerifyTokenSave(h)
          \/ VerifyTokenUser(h)
          \/ VerifyTokenMark(h)

\* verify-token requests with one email verification or password-reset token
TokenSpec == Init /\ [][TokenNext]_vars

\* ---------------------------------------------------- admin login: actions
\* POST /admin/login up to comparePassword: the account is read; a locked
\* account answers 401 before the password is looked at.  ok is whether the
\* password sent is the right one.
LoginFind ==
    /\ lproc.pc = "idle"
    /\ \E ok \in BOOLEAN :
          /\ ok \/ admin.loginAttempts < MaxFailedLogins
          /\ IF isLocked(admin)
             THEN /\ llast' = [llast EXCEPT !.res = "Locked", !.ok = ok]
                  /\ UNCHANGED lproc
             ELSE /\ lproc' = [pc |-> "checked", ok |-> ok,
                               attempts |-> admin.loginAttempts]
                  /\ llast' = [llast EXCEPT !.res = "NONE", !.ok = ok]
    /\ UNCHANGED <<admin, otherThanAdmin>>

\* POST /admin/login after comparePassword: incrementLoginAttempts on a wrong
\* password, updateLoginInfo on the right one; save() sets the modified paths.
\* llast.failures counts the wrong passwords answered since the last success
\* or unlock.
LoginSave ==
    /\ lproc.pc = "checked"
    /\ IF ~lproc.ok
       THEN LET n == lproc.attempts + 1 IN
            /\ admin' = [loginAttempts |-> n,
                         lockedUntil |-> IF shouldLock(n) THEN "future"
                                         ELSE admin.lockedUntil]
            /\ llast' = [res |-> "InvalidCredentials", ok |-> FALSE,
                         failures |-> llast.failures + 1]
       ELSE /\ admin' = [loginAttempts |-> 0, lockedUntil |-> "null"]
            /\ llast' = [res |-> "Success", ok |-> TRUE, failures |-> 0]
    /\ lproc' = LIdle
    /\ UNCHANGED otherThanAdmin

\* the 30 minutes of a lock pass
LockExpires ==
    /\ admin.lockedUntil = "future"
    /\ admin' = [admin EXCEPT !.lockedUntil = "past"]
    /\ UNCHANGED <<lproc, llast, otherThanAdmin>>

\* Admin.unlockAccount
UnlockAccount ==
    /\ admin # NewAdmin
    /\ admin' = NewAdmin
    /\ llast' = [llast EXCEPT !.res = "Unlocked", !.failures = 0]
    /\ UNCHANGED <<lproc, otherThanAdmin>>

AdminNext ==
    \/ LoginFind
    \/ LoginSave
    \/ LockExpires
    \/ UnlockAccount

\* logins of one admin account, one at a time
AdminSpec == Init /\ [][AdminNext]_vars

\* --------------------------------------------- verification method: actions
\* POST /send and POST /resend up to the first await of sendVerificationCode:
\* the service-wide method is read, then replaced by the request's method
SendBegin(h) ==
    /\ mproc[h].pc = "idle"
    /\ \E want \in Methods :
          /\ mproc' = [mproc EXCEPT ![h] = [pc |-> "sending", orig |-> method,
                                            want |-> want, ok |-> FALSE]]
          /\ method' = setVerificationMethod(method, want)
    /\ UNCHANGED <<mlast, otherThanMethod>>

\* sendVerificationCode, delivery: Twilio Verify for SMS (sendSMSFallback), the
\* email service for EMAIL; the branch was chosen before the first await
SendDeliver(h) ==
    /\ mproc[h].pc = "sending"
    /\ \E twilio \in TwilioOutcomes, emailSent \in BOOLEAN :
          mproc' = [mproc EXCEPT ![h].pc = "delivered",
                                 ![h].ok = IF mproc[h].want = "SMS"
                                           THEN sendSMSFallback(twilio).success
                                           ELSE emailSent]
    /\ UNCHANGED <<method, mlast, otherThanMethod>>

\* sendVerificationCode returns (the EMAIL branch names the service-wide method
\* of that moment in its message); the route puts back the method it read and
\* answers 200 or 500
SendEnd(h) ==
    /\ mproc[h].pc = "delivered"
    /\ mlast' = [res |-> IF mproc[h].ok THEN "200" ELSE "500",
                 via |-> IF mproc[h].want = "SMS" THEN "SMS" ELSE method]
    /\ method' = setVerificationMethod(method, mproc[h].orig)
    /\ mproc' = [mproc EXCEPT ![h] = MIdle]
    /\ UNCHANGED otherThanMethod

MethodNext ==
    \E h \in Handlers :
        \/ SendBegin(h)
        \/ SendDeliver(h)
        \/ SendEnd(h)

\* /send and /resend verification requests against one verification service
MethodSpec == Init /\ [][MethodNext]_vars

\* ------------------------------------------------------ blood camp: actions
\* POST /api/blood-camps: new BloodCamp(body), save; the date sent may lie in
\* the past, the status defaults to UPCOMING
CreateCamp ==
    /\ ~camp.exists
    /\ \E past \in BOOLEAN, capacity \in Capacities, body \in StatusBodies :
          LET status == IF body = "absent" THEN "UPCOMING" ELSE body IN
          /\ camp' = [exists |-> TRUE, status |-> campPreSave(status, past),
                      past |-> past, registeredCount |-> 0, capacity |-> capacity]
          /\ clast' = [op |-> "create", res |-> "Saved", before |-> status]
    /\ UNCHANGED otherThanCamp

\* PUT /api/blood-camps/:id: Object.assign(camp, body), save
UpdateCamp ==
    /\ camp.exists
    /\ \E past \in BOOLEAN, capacity \in Capacities, body \in StatusBodies :
          LET status == IF body = "absent" THEN camp.status ELSE body IN
          /\ camp' = [camp EXCEPT !.status = campPreSave(status, past),
                                  !.past = past, !.capacity = capacity]
          /\ clast' = [op |-> "update", res |-> "Saved", before |-> status]
    /\ UNCHANGED otherThanCamp

\* model method registerDonor
RegisterDonor ==
    /\ camp.exists
    /\ IF camp.registeredCount >= camp.capacity
       THEN /\ clast' = [op |-> "registerDonor", res |-> "FullCapacity",
                         before |-> camp.status]
            /\ UNCHANGED camp
       ELSE IF camp.status # "UPCOMING" /\ camp.status # "ACTIVE"
       THEN /\ clast' = [op |-> "registerDonor", res |-> "NotAccepting",
                         before |-> camp.status]
            /\ UNCHANGED camp
       ELSE /\ camp' = [camp EXCEPT !.registeredCount = @ + 1,
                                    !.status = campPreSave(camp.status, camp.past)]
            /\ clast' = [op |-> "registerDonor", res |-> "Saved", before |-> camp.status]
    /\ UNCHANGED otherThanCamp

\* model method unregisterDonor
UnregisterDonor ==
    /\ camp.exists
    /\ IF camp.registeredCount > 0
       THEN /\ camp' = [camp EXCEPT !.registeredCount = @ - 1,
                                    !.status = campPreSave(camp.status, camp.past)]
            /\ clast' = [op |-> "unregisterDonor", res |-> "Saved",
                         before |-> camp.status]
       ELSE /\ clast' = [op |-> "unregisterDonor", res |-> "Unchanged",
                         before |-> camp.status]
            /\ UNCHANGED camp
    /\ UNCHANGED otherThanCamp

\* DELETE /api/blood-camps/:id
DeleteCamp ==
    /\ camp.exists
    /\ camp' = NoCamp
    /\ clast' = [op |-> "delete", res |-> "Deleted", before |-> "NONE"]
    /\ UNCHANGED otherThanCamp

\* the camp's date passes
CampDatePasses ==
    /\ camp.exists
    /\ ~camp.past
    /\ camp' = [camp EXCEPT !.past = TRUE]
    /\ UNCHANGED <<clast, otherThanCamp>>

CampNext ==
    \/ CreateCamp
    \/ UpdateCamp
    \/ RegisterDonor
    \/ UnregisterDonor
    \/ DeleteCamp
    \/ CampDatePasses

\* one blood camp: created, updated, registered for, deleted
CampSpec == Init /\ [][CampNext]_vars

TypeOK ==
    /\ db.exists \in BOOLEAN
    /\ db.exists => db.status \in RequestStatuses
    /\ now \in Times
    /\ \A h \in Handlers : proc[h].pc \in {"idle", "loaded"}
    /\ admin.lockedUntil \in LockStates
    /\ method \in Methods
    /\ camp.exists => camp.status \in CampStatuses

\* ------------------------------------------------------------- properties

\* donors named in a list of acceptances
DonorsOf(list) == {list[i].donor : i \in 1..Len(list)}

\* no donor occurs in two entries
Distinct(list) == \A i, j \in 1..Len(list) : i # j => list[i].donor # list[j].donor

\* number of entries whose status is in S
CountIn(list, S) == Cardinality({i \in 1..Len(list) : list[i].status \in S})

\* handler h completes an accept call / a cancel call in this step
AcceptCall(h) ==
    /\ proc[h].pc = "loaded"
    /\ proc[h].op \in {"accept", "acceptDonor"}
    /\ proc'[h].pc = "idle"

CancelCall(h) ==
    /\ proc[h].pc = "loaded"
    /\ proc[h].op = "cancelRequest"
    /\ proc'[h].pc = "idle"

DuplicateRejections == {"DuplicateAcceptance", "AlreadyAccepted"}

\* C1: under any interleaving of concurrent accept calls by distinct donors, an
\* accept that reports success never leaves the stored acceptedDonors list
\* longer than units.
C1_AtomicAccept ==
    [][\A h \in Handlers :
          (AcceptCall(h) /\ last'.res = "Accepted" /\ Distinct(db'.acceptedDonors))
              => Len(db'.acceptedDonors) <= db'.units]_vars

\* C2: for every sequence of acceptDonor calls, successful or rejected,
\* acceptedDonors.length <= units holds after each call.
C2_WithinUnits == db.exists => Len(db.acceptedDonors) <= db.units

\* the list is full and a further accept has just been refused
C2_Witness ==
    /\ db.exists
    /\ Len(db.acceptedDonors) = db.units
    /\ last.res = "CapacityExceeded"

\* C3 (as stated): status is COMPLETED iff the COMPLETED entries reach units, and
\* status is ACCEPTED iff the CONFIRMED or COMPLETED entries reach units.
C3_StatusIff ==
    db.exists =>
        /\ (db.status = "COMPLETED")
               <=> (CountIn(db.acceptedDonors, {"COMPLETED"}) >= db.units)
        /\ (db.status = "ACCEPTED")
               <=> (CountIn(db.acceptedDonors, {"CONFIRMED", "COMPLETED"}) >= db.units)

\* C3 (amended): status is COMPLETED iff the COMPLETED entries reach units, and
\* status ACCEPTED implies that the raw list length has reached units.
C3_StatusDerived ==
    db.exists =>
        /\ (db.status = "COMPLETED")
               <=> (CountIn(db.acceptedDonors, {"COMPLETED"}) >= db.units)
        /\ (db.status = "ACCEPTED") => (Len(db.acceptedDonors) >= db.units)

\* a request completed by updateDonorStatus
C3_Witness ==
    /\ db.exists
    /\ db.status = "COMPLETED"
    /\ last.op = "updateDonorStatus"
    /\ last.res = "Updated"
    /\ CountIn(db.acceptedDonors, {"COMPLETED"}) >= db.units

Rank(st) ==
    CASE st = "PENDING"     -> 0
      [] st = "IN_PROGRESS" -> 1
      [] st = "ACCEPTED"    -> 2
      [] st = "COMPLETED"   -> 3
      [] OTHER              -> 4

\* C4: a request's status never moves backward in the order PENDING,
\* IN_PROGRESS, ACCEPTED, COMPLETED; the only other transitions are to CANCELLED
\* from a non-terminal state and to EXPIRED from PENDING once requiredBy has passed.
C4_ForwardOnly ==
    [][(db.exists /\ db'.status # db.status) =>
          \/ /\ Rank(db.status) < 4
             /\ Rank(db'.status) < 4
             /\ Rank(db.status) < Rank(db'.status)
          \/ /\ db'.status = "CANCELLED"
             /\ db.status \in {"PENDING", "IN_PROGRESS", "ACCEPTED"}
          \/ /\ db'.status = "EXPIRED"
             /\ db.status = "PENDING"
             /\ now > db.requiredBy]_vars

\* C5: no donor id occurs in more than one entry of acceptedDonors, under any
\* sequence or interleaving of accept calls.
C5_NoDonorTwice == Distinct(db.acceptedDonors)

\* C6: an accept call for a donor who is already in the list is rejected as a
\* duplicate and leaves the stored request exactly as it was.
C6_DuplicateRejected ==
    [][\A h \in Handlers :
          (AcceptCall(h) /\ last'.donor \in DonorsOf(db.acceptedDonors))
              => (last'.res \in DuplicateRejections /\ db' = db)]_vars

\* a repeated accept has just been refused on a request that holds the donor
C6_Witness ==
    /\ db.exists
    /\ last.res = "DuplicateAcceptance"
    /\ last.donor \in DonorsOf(db.acceptedDonors)

\* C7: a successful accept appends exactly one PENDING entry for the donor and
\* sets the status to ACCEPTED if the list is now full, otherwise IN_PROGRESS;
\* an accept by a new donor on a full list is rejected with CapacityExceeded.
C7_AcceptEffect ==
    [][\A h \in Handlers :
          AcceptCall(h) =>
             /\ last'.res = "Accepted" =>
                   /\ db'.acceptedDonors =
                          Append(db.acceptedDonors,
                                 [donor |-> last'.donor, status |-> "PENDING"])
                   /\ db'.status = IF Len(db'.acceptedDonors) = db.units
                                   THEN "ACCEPTED" ELSE "IN_PROGRESS"
             /\ (last'.donor \notin DonorsOf(db.acceptedDonors)
                   /\ Len(db.acceptedDonors) >= db.units)
                   => (last'.res = "CapacityExceeded" /\ db' = db)
             /\ (last'.donor \notin DonorsOf(db.acceptedDonors)
                   /\ Len(db.acceptedDonors) < db.units)
                   => last'.res = "Accepted"]_vars

\* units = 2, two distinct donors accepted, status ACCEPTED, a third refused
C7_Witness ==
    /\ db.exists
    /\ db.units = 2
    /\ Len(db.acceptedDonors) = 2
    /\ Cardinality(DonorsOf(db.acceptedDonors)) = 2
    /\ db.status = "ACCEPTED"
    /\ last.res = "CapacityExceeded"
    /\ last.donor \notin DonorsOf(db.acceptedDonors)

\* C8: once requiredBy has passed, an operation that loads the request (the
\* nearby listing, the load of an accept) observes it as EXPIRED, not PENDING,
\* and leaves it so.
C8_ExpiredOnLoad ==
    [][\A h \in Handlers :
          (db.exists /\ now > db.requiredBy) =>
             /\ FindNearbyRequests(h) => last'.res # "PENDING"
             /\ (Load(h) /\ proc'[h].pc = "loaded")
                   => (proc'[h].doc.status # "PENDING" /\ db'.status # "PENDING")]_vars

\* C9: cancelRequest on a COMPLETED request is rejected with InvalidTransition
\* and the status stays COMPLETED; from every other status it succeeds and the
\* status becomes CANCELLED.
C9_CancelGuard ==
    [][\A h \in Handlers :
          CancelCall(h) =>
             IF db.status = "COMPLETED"
             THEN last'.res = "InvalidTransition" /\ db' = db
             ELSE /\ last'.res = "Cancelled"
                  /\ db' = [db EXCEPT !.status = "CANCELLED"]]_vars

\* a cancel has just been refused on a completed request
C9_Witness ==
    /\ db.exists
    /\ db.status = "COMPLETED"
    /\ last.op = "cancelRequest"
    /\ last.res = "InvalidTransition"

\* C10 (as stated): every created request is stored PENDING with no acceptances.
C10_CreatedPending ==
    [][(~db.exists /\ db'.exists) =>
          (db'.status = "PENDING" /\ db'.acceptedDonors = <<>>)]_vars

\* C10 (amended): every created request is stored with no acceptances, PENDING
\* when requiredBy has not passed at creation and EXPIRED when it has.
C10_CreatedPendingOrExpired ==
    [][(~db.exists /\ db'.exists) =>
          /\ db'.acceptedDonors = <<>>
          /\ db'.status = IF now > db'.requiredBy THEN "EXPIRED" ELSE "PENDING"]_vars

\* a request that was created past its deadline
C10_Witness ==
    /\ db.exists
    /\ last.op = "create"
    /\ last.res = "Created"
    /\ now > db.requiredBy
    /\ db.status = "EXPIRED"
    /\ db.acceptedDonors = <<>>

\* outcomes of a dispatch that delivered nothing
UndeliveredDispatches == {"unconfigured", "sendError", "noDelivery"}

\* C11: a notification-delivery failure never rolls back the primary mutation:
\* a created request stays stored and the call reports success when no donor
\* could be notified or the notification step failed, and a donor's acceptance
\* stays stored when notifying the requester failed.
C11_NoRollback ==
    /\ (last.op = "create"
          /\ last.push \in UndeliveredDispatches \cup {"queryError", "noRecipients"})
          => (last.res = "Created" /\ createStatusCode(last.res) = 201 /\ db.exists)
    /\ (last.op = "accept" /\ last.push \in UndeliveredDispatches)
          => (last.res = "Accepted" /\ last.donor \in DonorsOf(db.acceptedDonors))

\* a request created while the send failed
C11_Witness ==
    /\ last.op = "create"
    /\ last.push = "sendError"
    /\ last.res = "Created"
    /\ db.exists

\* C12: whenever the push dispatch for a newly created request fails (backend
\* unconfigured, send error, or no recipient delivered), the create response
\* indicates the failure and does not report that notifications were sent.
C12_FailureReported ==
    (last.op = "create" /\ last.res = "Created" /\ last.push \in UndeliveredDispatches)
        => (~last.sent /\ last.nerr)

\* C13: with the backend unconfigured or the send call failing, sendNotification
\* and sendMulticastNotification return a structured failure and do not throw,
\* and the route that called them still completes.
C13_StructuredFailure ==
    /\ (call.fn = "sendNotification" /\ call.backend # "ok")
          => (~call.out.threw /\ call.out.success = "false"
                /\ call.out.why \in {"reason", "error"})
    /\ (call.fn = "sendMulticastNotification" /\ call.backend # "ok")
          => (~call.out.threw /\ call.out.success = "false"
                /\ call.out.successCount = 0 /\ call.out.failureCount = call.n)
    /\ (call.fn = "push" /\ call.backend # "ok" /\ call.code # 400)
          => (call.code = 200 /\ call.successCount = 0
                /\ call.failureCount = call.totalTokens)

\* the push route answered although the send call failed
C13_Witness ==
    /\ call.fn = "push"
    /\ call.backend = "error"
    /\ call.code = 200
    /\ call.totalTokens > 0
    /\ call.failureCount = call.totalTokens

\* C14: every recipient lacking a push token is counted in failureCount, so
\* successCount + failureCount equals the number of recipients.
C14_CountsCoverRecipients ==
    (call.fn = "push" /\ call.code = 200) =>
        /\ call.successCount + call.failureCount = Len(call.recipients)
        /\ call.failureCount >=
               Cardinality({i \in 1..Len(call.recipients) : ~call.recipients[i]})

\* C15: the list returned by a proximity query, for donors and for requests, is
\* sorted by distance from the query point, nearest first.
C15_NearestFirst ==
    (call.fn = "nearby" /\ call.code = 200) =>
        \A i, j \in 1..Len(call.list) :
            i < j => call.list[i].dist <= call.list[j].dist

\* query-string spellings of zero
ZeroSpellings == {"0", "0.0", "-0"}

C17_ValidationNoMutation ==
    (last.op = "create" /\ last.res \in {"ValidationFailed", "SchemaValidationFailed"})
        => /\ createStatusCode(last.res) \in 400..499
           /\ ~db.exists
           /\ last.push = "none"

\* C18: a delete-account call by a requester who owns a request in status
\* PENDING, ACCEPTED or IN_PROGRESS is rejected and the user record remains.
C18_DeleteBlocked ==
    [][\A h \in Handlers :
          (/\ DeleteCheck(h)
           /\ account.role = "REQUESTER"
           /\ \E i \in 1..MaxOwned :
                 account.requests[i] \in {"PENDING", "ACCEPTED", "IN_PROGRESS"})
              => (/\ alast'.res = "ActiveRequests"
                  /\ account' = account
                  /\ aproc'[h] = "idle")]_vars

\* a delete-account call refused for a requester whose only open request is
\* in progress
C18_Witness ==
    /\ alast.res = "ActiveRequests"
    /\ account.exists
    /\ account.role = "REQUESTER"
    /\ \E i \in 1..MaxOwned : account.requests[i] = "IN_PROGRESS"
    /\ \A i \in 1..MaxOwned : account.requests[i] \notin {"PENDING", "ACCEPTED"}

\* C19: remainingUnits equals max(0, units - number of CONFIRMED or COMPLETED
\* acceptances) and is never negative, and acceptedCount counts exactly the
\* CONFIRMED and COMPLETED acceptances.
C19_Virtuals ==
    call.fn = "virtuals" =>
        LET n == CountIn(call.acceptedDonors, {"CONFIRMED", "COMPLETED"}) IN
        /\ call.remainingUnits = (IF call.units - n > 0 THEN call.units - n ELSE 0)
        /\ call.remainingUnits >= 0
        /\ call.acceptedCount = n
        /\ call.acceptedCount =
               Len(call.acceptedDonors)
                   - CountIn(call.acceptedDonors, {"PENDING", "CANCELLED"})

\* more confirmed acceptances than units, beside a pending one: nothing remains
C19_Witness ==
    /\ call.fn = "virtuals"
    /\ CountIn(call.acceptedDonors, {"CONFIRMED", "COMPLETED"}) > call.units
    /\ CountIn(call.acceptedDonors, {"PENDING"}) > 0
    /\ call.remainingUnits = 0
    /\ call.acceptedCount < Len(call.acceptedDonors)

\* C20: at most one OTP of a phone and type is verifiable at any time, also
\* under concurrent createOTP calls: a completed createOTP leaves no earlier OTP
\* that a verification could accept.
C20_AtMostOneVerifiable ==
    Cardinality({i \in 1..Len(otps) :
                    ~otps[i].isUsed /\ ~otps[i].expired
                        /\ otps[i].attempts < MaxAttempts}) <= 1

\* C21: an OTP allows at most 5 verification attempts: its attempts counter never
\* exceeds 5, and once 5 wrong codes have been answered for it no verification of
\* it is answered valid, whatever code is sent.
C21_AtMostFiveAttempts ==
    \A i \in 1..Len(otps) :
        /\ otps[i].attempts <= 5
        /\ otps[i].failed >= 5 => otps[i].accepted = 0
        /\ (olast.op = "verifyOTP" /\ olast.res = "Valid" /\ olast.idx = i)
               => otps[i].failed < 5

\* an unused, unexpired OTP with 5 wrong answers, and a verification with its
\* correct code that was refused
C21_Witness ==
    \E i \in 1..Len(otps) :
        /\ otps[i].failed = 5
        /\ otps[i].attempts = 5
        /\ ~otps[i].isUsed /\ ~otps[i].expired
        /\ olast.op = "verifyOTP"
        /\ olast.res = "NoValidOTP"
        /\ olast.otp = otps[i].otp


\* C22: at most 5 OTPs are issued for a phone within one hour, also when
\* send-otp requests for the phone arrive concurrently.
C22_AtMostFivePerHour == created <= 5


\* C29: when the delivery of an OTP fails, send-otp answers with a failure and
\* the record created for the request is deleted.
C29_FailedDeliveryDeletes ==
    slast.twilio = "error" => (slast.res = "500" /\ ~slast.stored)


\* C23: an email verification or password-reset token is single-use: at most one
\* verify-token request with the token succeeds, later or concurrent.
C23_TokenSingleUse == tlast.ok <= 1


\* C24: an admin account is locked by the fifth consecutive failed login, and
\* while the lock lasts every login is rejected and leaves the account as it
\* is, also a login with the correct password.
C24_LockedAfterFive ==
    [][ /\ (llast' # llast /\ llast'.res = "InvalidCredentials" /\ llast'.failures >= 5)
            => admin'.lockedUntil = "future"
        /\ (admin.lockedUntil = "future" /\ llast' # llast
              /\ llast'.res \in {"Success", "InvalidCredentials", "Locked"})
            => (llast'.res = "Locked" /\ admin' = admin) ]_vars

\* a login with the correct password that was rejected as locked after 5
\* consecutive failed logins
C24_Witness ==
    /\ llast.res = "Locked"
    /\ llast.ok
    /\ llast.failures >= 5
    /\ admin.lockedUntil = "future"


\* C25: CANCELLED and EXPIRED are absorbing: an accept or updateDonorStatus call
\* on a request that is CANCELLED or EXPIRED adds no donor to it and leaves its
\* status as it is.
C25_TerminalAbsorbing ==
    [][ ( /\ db.exists
          /\ db.status \in {"CANCELLED", "EXPIRED"}
          /\ proc[1].pc = "loaded"
          /\ proc[1].doc.status = db.status
          /\ proc[1].op \in {"accept", "acceptDonor", "updateDonorStatus"}
          /\ proc'[1].pc = "idle" )
        => ( /\ db'.status = db.status
             /\ db'.acceptedDonors = db.acceptedDonors ) ]_vars


\* the status updateDonorStatus derives from a list of acceptances
DerivedStatus(list, units) ==
    IF CountIn(list, {"COMPLETED"}) >= units THEN "COMPLETED" ELSE "IN_PROGRESS"

\* handler h completes an updateDonorStatus call that was loaded before the
\* previous updateDonorStatus call, for another donor, completed
SecondOfTwoUpdates(h) ==
    /\ proc[h].pc = "loaded"
    /\ proc[h].op = "updateDonorStatus"
    /\ proc'[h].pc = "idle"
    /\ last.op = "updateDonorStatus" /\ last.res = "Updated"
    /\ last'.op = "updateDonorStatus" /\ last'.res = "Updated"
    /\ last'.donor # last.donor

\* C26: when two updateDonorStatus calls for different donors of one request run
\* concurrently, after both have completed the request status is the status
\* derived from the stored list (units=2 and both donors marked COMPLETED ends
\* COMPLETED).
C26_NoLostUpdate ==
    [][ \A h \in Handlers :
            SecondOfTwoUpdates(h)
                => db'.status = DerivedStatus(db'.acceptedDonors, db'.units) ]_vars


\* C27: once all /send and /resend verification requests in flight have
\* finished, the service-wide verification method is the one it was before they
\* began.
C27_MethodRestored ==
    (\A h \in Handlers : mproc[h].pc = "idle") => method = DefaultMethod


\* C28: an OTP is single-use: for one issued OTP at most one verifyOTP call is
\* ever answered valid, also when two calls with the correct code run
\* concurrently.
C28_OtpSingleUse == \A i \in 1..Len(otps) : otps[i].accepted <= 1


\* C30: a blood camp's status advances one step per save: a save of an UPCOMING
\* camp whose date has passed makes it ACTIVE, never COMPLETED.
C30_OneStepPerSave ==
    (camp.exists /\ clast.res = "Saved" /\ clast.before = "UPCOMING")
        => camp.status # "COMPLETED"

====
